---- MODULE Spec2Model ----
(***************************************************************************)
(* State-machine model of demo_app.py: the startup sequence of main()      *)
(* (plugin discovery, plugin loads, system-monitor registration, exit-hook *)
(* registration, workflow creation, route wiring), the __main__ block      *)
(* (browser timer, uvicorn server), the two page handlers, and process     *)
(* exit with its atexit hooks.                                             *)
(*                                                                         *)
(* Python lists are 1-indexed sequences here: monitors[0] is monitors[1].  *)
(***************************************************************************)
EXTENDS Integers, Sequences, FiniteSets, TLC

\* ------------------------------------------------------------------ bounds
MaxPlugins == 2
MaxMonitors == 1
MaxMedia == 1

SessionIds == {"sessA", "sessB"}

\* What a discovery call can return: a list of up to n distinct plugins.
\* The plugins are named by their position in the list (any other list of
\* distinct plugins is this one with the plugins renamed).
DiscoveryResults(n) ==
    {[k \in 1..m |-> k] : m \in 0..n}

\* The collections of up to n items a listing call can return, by the same
\* naming.
Collections(n) ==
    {1..m : m \in 0..n}

\* The set of elements of a sequence.
Range(q) ==
    {q[k] : k \in DOMAIN q}

\* ------------------------------------------------------------------- state
VARIABLES
    pc,                    \* position of the main thread
    crashSite,             \* call whose exception left main() uncaught, or "none"
    transcription_plugins, \* line 104: list of discovered transcription plugins
    idx,                   \* position of the for-loop of line 108
    monitors,              \* line 117: list of discovered system monitors
    loadCalls,             \* every load_plugin call made, in order, with its outcome
    stdout,                \* status lines printed by the load code
    registerCalls,         \* every register_system_monitor call made, in order
    loaded,                \* plugins the plugin manager currently holds loaded
    hooks,                 \* atexit registry
    pendingHooks,          \* at exit: registered hooks that have not returned yet
    unloadCalls,           \* number of unload_all calls made
    appState,              \* app.state.single_file_workflow is set
    startupPlugins,        \* line 161: plugins captured once at startup
    registry,              \* what plugin_registry.get_all_plugins() returns now
    media,                 \* what file_browser.scan() returns now
    handlers,              \* handlers defined on the router
    navbar,                \* closure variable navbar is bound
    routes,                \* routes registered on the app
    timer,                 \* threading.Timer of line 365
    server,                \* uvicorn server
    browserOpens,          \* number of webbrowser.open calls
    openedBeforeUp,        \* a webbrowser.open call happened while the server was not up
    resp,                  \* the last response produced by a page handler
    inflight               \* the GET / request being handled, if any

vars ==
    <<pc, crashSite, transcription_plugins, idx, monitors, loadCalls, stdout,
      registerCalls, loaded, hooks, pendingHooks, unloadCalls, appState,
      startupPlugins, registry, media, handlers, navbar, routes, timer, server,
      browserOpens, openedBeforeUp, resp, inflight>>

startupVars ==
    <<transcription_plugins, idx, monitors, loadCalls, stdout, registerCalls>>

wiringVars ==
    <<appState, startupPlugins, handlers, navbar, routes>>

serveVars ==
    <<timer, server, browserOpens, openedBeforeUp, resp, inflight>>

NoResp ==
    [route |-> "none", req |-> [htmx |-> FALSE], sess |-> "none", status |-> 0,
     layout |-> FALSE, calls |-> <<>>, content |-> [kind |-> "none"]]

NoRequest ==
    [active |-> FALSE, req |-> [htmx |-> FALSE], all_plugins |-> {}]

Init ==
    /\ pc = "discover"
    /\ crashSite = "none"
    /\ transcription_plugins = <<>>
    /\ idx = 1
    /\ monitors = <<>>
    /\ loadCalls = <<>>
    /\ stdout = <<>>
    /\ registerCalls = <<>>
    /\ loaded = {}
    /\ hooks = <<>>
    /\ pendingHooks = <<>>
    /\ unloadCalls = 0
    /\ appState = FALSE
    /\ startupPlugins = {}
    /\ registry = {}
    /\ media = {}
    /\ handlers = {}
    /\ navbar = FALSE
    /\ routes = {}
    /\ timer = "idle"
    /\ server = "down"
    /\ browserOpens = 0
    /\ openedBeforeUp = FALSE
    /\ resp = NoResp
    /\ inflight = NoRequest

\* ------------------------------------------------------- startup: main()
\* What a load_plugin call can do: return True, return False, raise an
\* Exception ("raise"), or raise a BaseException that is not an Exception,
\* such as KeyboardInterrupt or SystemExit ("raise_base").
LoadOutcomes ==
    {"true", "false", "raise", "raise_base"}

\* What a register_system_monitor call can do.
RegisterOutcomes ==
    {"ok", "raise", "raise_base"}

\* Lines 113 and 123: "except Exception" catches Exception and its
\* subclasses only.
Caught(outcome) ==
    outcome = "raise"

Uncaught(outcome) ==
    outcome = "raise_base"

Meta(cat, id) ==
    [cat |-> cat, name |-> id]

Line(kind, name, status) ==
    [kind |-> kind, name |-> name, status |-> status]

\* Lines 101-105: discover_manifests() and the category listing.
DiscoverManifests ==
    /\ pc = "discover"
    /\ \E found \in DiscoveryResults(MaxPlugins) :
          transcription_plugins' = found
    /\ idx' = 1
    /\ pc' = "load"
    /\ UNCHANGED <<crashSite, monitors, loadCalls, stdout, registerCalls, loaded,
                   hooks, pendingHooks, unloadCalls, registry, media>>
    /\ UNCHANGED wiringVars
    /\ UNCHANGED serveVars

\* Line 111 and the except clause of line 113: the status printed for one load.
LoadStatus(outcome) ==
    CASE outcome = "true" -> "loaded"
      [] outcome = "false" -> "failed"
      [] OTHER -> "error"

\* LoadPlugin without the try/except of lines 109 and 113: any exception of
\* load_plugin leaves main().
LoadPlugin_NoCatch ==
    /\ pc = "load"
    /\ idx <= Len(transcription_plugins)
    /\ \E outcome \in LoadOutcomes :
          LET meta == Meta("transcription", transcription_plugins[idx]) IN
          /\ loadCalls' = Append(loadCalls, [meta |-> meta, outcome |-> outcome])
          /\ loaded' = IF outcome = "true" THEN loaded \cup {meta} ELSE loaded
          /\ IF Caught(outcome) \/ Uncaught(outcome)
                THEN /\ stdout' = stdout
                     /\ idx' = idx
                     /\ pc' = "crashed"
                     /\ crashSite' = "load_plugin"
                ELSE /\ stdout' = Append(stdout, Line("status", meta.name, LoadStatus(outcome)))
                     /\ idx' = idx + 1
                     /\ UNCHANGED <<pc, crashSite>>
    /\ UNCHANGED <<transcription_plugins, monitors, registerCalls,
                   hooks, pendingHooks, unloadCalls, registry, media>>
    /\ UNCHANGED wiringVars
    /\ UNCHANGED serveVars

\* Lines 108-114: one iteration of the load loop.  An Exception of
\* load_plugin is caught by the except clause and the loop goes on; any
\* other BaseException leaves the loop and main().
LoadPlugin ==
    /\ pc = "load"
    /\ idx <= Len(transcription_plugins)
    /\ \E outcome \in LoadOutcomes :
          LET meta == Meta("transcription", transcription_plugins[idx]) IN
          /\ loadCalls' = Append(loadCalls, [meta |-> meta, outcome |-> outcome])
          /\ loaded' = IF outcome = "true" THEN loaded \cup {meta} ELSE loaded
          /\ IF Uncaught(outcome)
                THEN /\ stdout' = stdout
                     /\ idx' = idx
                     /\ pc' = "crashed"
                     /\ crashSite' = "load_plugin"
                ELSE /\ stdout' = Append(stdout, Line("status", meta.name, LoadStatus(outcome)))
                     /\ idx' = idx + 1
                     /\ UNCHANGED <<pc, crashSite>>
    /\ UNCHANGED <<transcription_plugins, monitors, registerCalls,
                   hooks, pendingHooks, unloadCalls, registry, media>>
    /\ UNCHANGED wiringVars
    /\ UNCHANGED serveVars

\* Lines 117-118: the loop is over; list the system monitors and test the list.
GetMonitors ==
    /\ pc = "load"
    /\ idx > Len(transcription_plugins)
    /\ \E found \in DiscoveryResults(MaxMonitors) :
          /\ monitors' = found
          /\ pc' = IF found # <<>> THEN "monitor_load" ELSE "atexit"
    /\ UNCHANGED <<crashSite, transcription_plugins, idx, loadCalls, stdout,
                   registerCalls, loaded, hooks, pendingHooks, unloadCalls, registry, media>>
    /\ UNCHANGED wiringVars
    /\ UNCHANGED serveVars

\* Lines 119-120, 123-124: load_plugin(monitors[0]).  Its return value is
\* not read; an Exception goes to the except clause, any other BaseException
\* leaves main().
LoadMonitor ==
    /\ pc = "monitor_load"
    /\ \E outcome \in LoadOutcomes :
          LET meta == Meta("system_monitor", monitors[1]) IN
          /\ loadCalls' = Append(loadCalls, [meta |-> meta, outcome |-> outcome])
          /\ loaded' = IF outcome = "true" THEN loaded \cup {meta} ELSE loaded
          /\ CASE Uncaught(outcome) ->
                     /\ stdout' = stdout
                     /\ pc' = "crashed"
                     /\ crashSite' = "load_plugin"
               [] Caught(outcome) ->
                     /\ stdout' = Append(stdout, Line("monitor_failed", meta.name, "error"))
                     /\ pc' = "atexit"
                     /\ crashSite' = crashSite
               [] OTHER ->
                     /\ stdout' = stdout
                     /\ pc' = "monitor_register"
                     /\ crashSite' = crashSite
    /\ UNCHANGED <<transcription_plugins, idx, monitors, registerCalls,
                   hooks, pendingHooks, unloadCalls, registry, media>>
    /\ UNCHANGED wiringVars
    /\ UNCHANGED serveVars

\* Lines 121-124: register_system_monitor(monitors[0].name) and its print,
\* the except clause when the registration raises an Exception, or the end
\* of main() when it raises any other BaseException.
RegisterSystemMonitor ==
    /\ pc = "monitor_register"
    /\ registerCalls' = Append(registerCalls, monitors[1])
    /\ \E outcome \in RegisterOutcomes :
          CASE Uncaught(outcome) ->
                  /\ stdout' = stdout
                  /\ pc' = "crashed"
                  /\ crashSite' = "register_system_monitor"
            [] Caught(outcome) ->
                  /\ stdout' = Append(stdout, Line("monitor_failed", monitors[1], "error"))
                  /\ pc' = "atexit"
                  /\ crashSite' = crashSite
            [] OTHER ->
                  /\ stdout' = Append(stdout, Line("monitor_registered", monitors[1], "ok"))
                  /\ pc' = "atexit"
                  /\ crashSite' = crashSite
    /\ UNCHANGED <<transcription_plugins, idx, monitors, loadCalls,
                   loaded, hooks, pendingHooks, unloadCalls, registry, media>>
    /\ UNCHANGED wiringVars
    /\ UNCHANGED serveVars

\* AtexitRegister made conditional on every load having succeeded.
AtexitRegister_OnlyIfAllLoaded ==
    /\ pc = "atexit"
    /\ hooks' = IF \A k \in 1..Len(loadCalls) : loadCalls[k].outcome = "true"
                   THEN Append(hooks, "cleanup_plugins")
                   ELSE hooks
    /\ pc' = "create"
    /\ UNCHANGED <<crashSite, loaded, pendingHooks, unloadCalls, registry, media>>
    /\ UNCHANGED startupVars
    /\ UNCHANGED wiringVars
    /\ UNCHANGED serveVars

\* Line 132: atexit.register(cleanup_plugins).
AtexitRegister ==
    /\ pc = "atexit"
    /\ hooks' = Append(hooks, "cleanup_plugins")
    /\ pc' = "create"
    /\ UNCHANGED <<crashSite, loaded, pendingHooks, unloadCalls, registry, media>>
    /\ UNCHANGED startupVars
    /\ UNCHANGED wiringVars
    /\ UNCHANGED serveVars

\* What PluginRegistryAdapter.get_all_plugins() exposes once the workflow is
\* set up: the discovered transcription plugins, loaded or not.
DiscoveredRegistry(plugins) ==
    Range(plugins)

\* plugin_registry.get_all_plugins() at the time of the call.
get_all_plugins ==
    registry

\* file_browser.scan() at the time of the call.
scan ==
    media

\* Routers contributed by the workflow (get_routers()), under route_prefix.
WorkflowRouters ==
    {"/workflow/*"}

\* Lines 145-166: create_and_setup, the app.state stores, the startup count.
CreateAndSetup ==
    /\ pc = "create"
    /\ registry' = DiscoveredRegistry(transcription_plugins)
    /\ appState' = TRUE
    /\ startupPlugins' = DiscoveredRegistry(transcription_plugins)
    /\ pc' = "define"
    /\ UNCHANGED <<crashSite, loaded, hooks, pendingHooks, unloadCalls, media, handlers, navbar, routes>>
    /\ UNCHANGED startupVars
    /\ UNCHANGED serveVars

\* Lines 169-297: the two handlers are defined on the router.
DefineRoutes ==
    /\ pc = "define"
    /\ handlers' = {"/", "/workflow"}
    /\ pc' = "navbar"
    /\ UNCHANGED <<crashSite, loaded, hooks, pendingHooks, unloadCalls, registry, media,
                   appState, startupPlugins, navbar, routes>>
    /\ UNCHANGED startupVars
    /\ UNCHANGED serveVars

\* CreateNavbar moved under the "if plugins:" test of line 164: navbar stays
\* unbound when the startup plugin list is empty.
CreateNavbar_OnlyWithPlugins ==
    /\ pc = "navbar"
    /\ navbar' = (startupPlugins # {})
    /\ pc' = "routes"
    /\ UNCHANGED <<crashSite, loaded, hooks, pendingHooks, unloadCalls, registry, media,
                   appState, startupPlugins, handlers, routes>>
    /\ UNCHANGED startupVars
    /\ UNCHANGED serveVars

\* Lines 299-308: navbar is bound, after the handlers that close over it.
CreateNavbar ==
    /\ pc = "navbar"
    /\ navbar' = TRUE
    /\ pc' = "routes"
    /\ UNCHANGED <<crashSite, loaded, hooks, pendingHooks, unloadCalls, registry, media,
                   appState, startupPlugins, handlers, routes>>
    /\ UNCHANGED startupVars
    /\ UNCHANGED serveVars

\* Lines 310-339: register_routes(app, router, *get_routers()); main returns.
RegisterRoutes ==
    /\ pc = "routes"
    /\ routes' = handlers \cup WorkflowRouters
    /\ pc' = "returned"
    /\ UNCHANGED <<crashSite, loaded, hooks, pendingHooks, unloadCalls, registry, media,
                   appState, startupPlugins, handlers, navbar>>
    /\ UNCHANGED startupVars
    /\ UNCHANGED serveVars

\* ------------------------------------------------------ __main__ block
\* Lines 365-367: the daemon timer is created and started.
StartTimer ==
    /\ pc = "returned"
    /\ timer' = "armed"
    /\ pc' = "timer_started"
    /\ UNCHANGED <<crashSite, loaded, hooks, pendingHooks, unloadCalls, registry, media,
                   server, browserOpens, openedBeforeUp, resp, inflight>>
    /\ UNCHANGED startupVars
    /\ UNCHANGED wiringVars

\* Line 370: uvicorn.run(app, ...) is entered; the server begins its startup.
UvicornRun ==
    /\ pc = "timer_started"
    /\ server' = "starting"
    /\ pc' = "serving"
    /\ UNCHANGED <<crashSite, loaded, hooks, pendingHooks, unloadCalls, registry, media,
                   timer, browserOpens, openedBeforeUp, resp, inflight>>
    /\ UNCHANGED startupVars
    /\ UNCHANGED wiringVars

\* The server finishes its startup and accepts requests on port 5030.
ServerStartup ==
    /\ pc = "serving"
    /\ server = "starting"
    /\ server' = "up"
    /\ UNCHANGED <<pc, crashSite, loaded, hooks, pendingHooks, unloadCalls, registry, media,
                   timer, browserOpens, openedBeforeUp, resp, inflight>>
    /\ UNCHANGED startupVars
    /\ UNCHANGED wiringVars

\* Positions of the main thread at which the timer thread is alive and its
\* timer can still fire: from timer.start() until the process is gone, the
\* run of the exit hooks included.
TimerThreadAlive ==
    pc \in {"timer_started", "serving", "shutdown", "unloading", "exit_hooks"}

\* TimerFire for a timer that re-arms itself after its callback.
TimerFire_Repeating ==
    /\ timer = "armed"
    /\ TimerThreadAlive
    /\ browserOpens < 3
    /\ timer' = "armed"
    /\ browserOpens' = browserOpens + 1
    /\ openedBeforeUp' = (openedBeforeUp \/ server # "up")
    /\ UNCHANGED <<pc, crashSite, loaded, hooks, pendingHooks, unloadCalls, registry,
                   media, server, resp, inflight>>
    /\ UNCHANGED startupVars
    /\ UNCHANGED wiringVars

\* Lines 350-352, 365: the timer thread runs its callback, once, 1.5 s after
\* timer.start(); nothing ties that moment to the server's startup or to the
\* exit hooks.
TimerFire ==
    /\ timer = "armed"
    /\ TimerThreadAlive
    /\ timer' = "fired"
    /\ browserOpens' = browserOpens + 1
    /\ openedBeforeUp' = (openedBeforeUp \/ server # "up")
    /\ UNCHANGED <<pc, crashSite, loaded, hooks, pendingHooks, unloadCalls, registry,
                   media, server, resp, inflight>>
    /\ UNCHANGED startupVars
    /\ UNCHANGED wiringVars

\* uvicorn.run returns (Ctrl-C, SIGTERM) once the request in progress is
\* answered, and the module's code ends.
Shutdown ==
    /\ pc = "serving"
    /\ ~inflight.active
    /\ server' = "stopped"
    /\ pc' = "shutdown"
    /\ UNCHANGED <<crashSite, loaded, hooks, pendingHooks, unloadCalls, registry, media,
                   timer, browserOpens, openedBeforeUp, resp, inflight>>
    /\ UNCHANGED startupVars
    /\ UNCHANGED wiringVars

\* The hooks atexit still has to run: all the registered ones when the
\* interpreter starts to exit (normally or after an uncaught exception).
HooksToRun ==
    IF pc \in {"shutdown", "crashed"} THEN hooks ELSE pendingHooks

\* Lines 127-129: atexit calls the hook registered last; cleanup_plugins
\* calls unload_all(), which takes time.
CleanupPluginsCall ==
    /\ pc \in {"shutdown", "crashed", "exit_hooks"}
    /\ HooksToRun # <<>>
    /\ pendingHooks' = HooksToRun
    /\ unloadCalls' = unloadCalls + 1
    /\ pc' = "unloading"
    /\ UNCHANGED <<crashSite, loaded, hooks, registry, media>>
    /\ UNCHANGED startupVars
    /\ UNCHANGED wiringVars
    /\ UNCHANGED serveVars

\* Lines 129-130: unload_all() has released every loaded plugin and the
\* hook returns.
CleanupPluginsReturn ==
    /\ pc = "unloading"
    /\ loaded' = {}
    /\ pendingHooks' = SubSeq(pendingHooks, 1, Len(pendingHooks) - 1)
    /\ pc' = "exit_hooks"
    /\ UNCHANGED <<crashSite, hooks, unloadCalls, registry, media>>
    /\ UNCHANGED startupVars
    /\ UNCHANGED wiringVars
    /\ UNCHANGED serveVars

\* No hook is left to run: the process is gone, and the daemon timer thread
\* with it.
ProcessExit ==
    /\ pc \in {"shutdown", "crashed", "exit_hooks"}
    /\ HooksToRun = <<>>
    /\ timer' = IF timer = "armed" THEN "cancelled" ELSE timer
    /\ pc' = "exited"
    /\ UNCHANGED <<crashSite, loaded, hooks, pendingHooks, unloadCalls, registry,
                   media, server, browserOpens, openedBeforeUp, resp, inflight>>
    /\ UNCHANGED startupVars
    /\ UNCHANGED wiringVars

\* ------------------------------------------------------- page handlers
Call(fn, args) ==
    [fn |-> fn, args |-> args]

\* workflow.render_entry_point(request, sess): the current step's content
\* for that request and session.
render_entry_point(request, sess) ==
    [kind |-> "entry_point", req |-> request, sess |-> sess]

\* home_content with the test of line 255 inverted ("if all_plugins").
home_content_AlertInverted(all_plugins, media_files) ==
    [calls |-> <<Call("get_all_plugins", <<>>), Call("scan", <<>>)>>,
     node |-> [kind |-> "home",
               pluginCount |-> Cardinality(all_plugins),
               pluginBadge |-> IF all_plugins # {} THEN "info" ELSE "warning",
               mediaCount |-> Cardinality(media_files),
               mediaBadge |-> IF media_files # {} THEN "success" ELSE "warning",
               noPluginsAlert |-> (all_plugins # {}),
               noMediaNote |-> (media_files = {})]]

\* home_content with the plugin badge counting media_files (the second
\* badge's expression pasted into the first).
home_content_MediaInPluginBadge(all_plugins, media_files) ==
    [calls |-> <<Call("get_all_plugins", <<>>), Call("scan", <<>>)>>,
     node |-> [kind |-> "home",
               pluginCount |-> Cardinality(media_files),
               pluginBadge |-> IF all_plugins # {} THEN "info" ELSE "warning",
               mediaCount |-> Cardinality(media_files),
               mediaBadge |-> IF media_files # {} THEN "success" ELSE "warning",
               noPluginsAlert |-> (all_plugins = {}),
               noMediaNote |-> (media_files = {})]]

\* Lines 173-274: home_content(), given what its two reads (line 175, then
\* line 176) returned.  node is the Div it returns, calls are the
\* collaborator calls it makes while building it.
home_content(all_plugins, media_files) ==
    [calls |-> <<Call("get_all_plugins", <<>>), Call("scan", <<>>)>>,
     node |-> [kind |-> "home",
               pluginCount |-> Cardinality(all_plugins),
               pluginBadge |-> IF all_plugins # {} THEN "info" ELSE "warning",
               mediaCount |-> Cardinality(media_files),
               mediaBadge |-> IF media_files # {} THEN "success" ELSE "warning",
               noPluginsAlert |-> (all_plugins = {}),
               noMediaNote |-> (media_files = {})]]

\* workflow_content rendering the entry point twice (once to test it, once to
\* embed it).
workflow_content_RenderTwice(request, sess) ==
    [calls |-> <<Call("render_entry_point", <<request, sess>>),
                 Call("render_entry_point", <<request, sess>>)>>,
     node |-> [kind |-> "container", child |-> render_entry_point(request, sess)]]

\* Lines 287-291: workflow_content().
workflow_content(request, sess) ==
    [calls |-> <<Call("render_entry_point", <<request, sess>>)>>,
     node |-> [kind |-> "container", child |-> render_entry_point(request, sess)]]

\* handle_htmx_request(request, content_fn, wrap_fn=...) as the handlers of
\* lines 276-280 and 293-297 call it.  The function belongs to
\* cjm_fasthtml_app_core; by the specification it evaluates content_fn once
\* and returns its output embedded in the page layout, which is wrap_fn's
\* result.  wrap_fn (lines 279, 296) reads the closure variable navbar: while
\* navbar is unbound the read raises NameError and the framework answers with
\* its default error response.
handle_htmx_request(route, request, sess, content) ==
    [route |-> route, req |-> request, sess |-> sess,
     status |-> IF navbar THEN 200 ELSE 500,
     layout |-> navbar,
     calls |-> content.calls,
     content |-> content.node]

\* Lines 169-175: GET / is received; index() enters handle_htmx_request,
\* which calls home_content(), whose first read is get_all_plugins().
\* Requests are answered one at a time: the handlers write no shared state.
GetIndexStart ==
    /\ server = "up"
    /\ "/" \in routes
    /\ ~inflight.active
    /\ \E htmx \in BOOLEAN :
          inflight' = [active |-> TRUE, req |-> [htmx |-> htmx],
                       all_plugins |-> get_all_plugins]
    /\ resp' = NoResp
    /\ UNCHANGED <<pc, crashSite, loaded, hooks, pendingHooks, unloadCalls, registry, media,
                   timer, server, browserOpens, openedBeforeUp>>
    /\ UNCHANGED startupVars
    /\ UNCHANGED wiringVars

\* GetIndexFinish showing the plugin list captured at startup (line 161)
\* instead of the one the registry returned to this request.
GetIndexFinish_StartupPlugins ==
    /\ inflight.active
    /\ resp' = handle_htmx_request("/", inflight.req, "none",
                                   home_content(startupPlugins, scan))
    /\ inflight' = NoRequest
    /\ UNCHANGED <<pc, crashSite, loaded, hooks, pendingHooks, unloadCalls, registry, media,
                   timer, server, browserOpens, openedBeforeUp>>
    /\ UNCHANGED startupVars
    /\ UNCHANGED wiringVars

\* Lines 176-280: home_content() goes on with its second read, scan(),
\* builds the page from the two results, and the response is returned.
GetIndexFinish ==
    /\ inflight.active
    /\ resp' = handle_htmx_request("/", inflight.req, "none",
                                   home_content(inflight.all_plugins, scan))
    /\ inflight' = NoRequest
    /\ UNCHANGED <<pc, crashSite, loaded, hooks, pendingHooks, unloadCalls, registry, media,
                   timer, server, browserOpens, openedBeforeUp>>
    /\ UNCHANGED startupVars
    /\ UNCHANGED wiringVars

\* Lines 283-297: GET /workflow.
GetWorkflow ==
    /\ server = "up"
    /\ "/workflow" \in routes
    /\ ~inflight.active
    /\ \E htmx \in BOOLEAN, sess \in SessionIds :
          LET request == [htmx |-> htmx] IN
          resp' = handle_htmx_request("/workflow", request, sess,
                                      workflow_content(request, sess))
    /\ UNCHANGED <<pc, crashSite, loaded, hooks, pendingHooks, unloadCalls, registry, media,
                   timer, server, browserOpens, openedBeforeUp, inflight>>
    /\ UNCHANGED startupVars
    /\ UNCHANGED wiringVars

\* --------------------------------------------------------- environment
\* Media files appear or disappear in the configured directories.
MediaChange ==
    /\ server = "up"
    /\ \E m \in Collections(MaxMedia) :
          /\ m # media
          /\ media' = m
    /\ UNCHANGED <<pc, crashSite, loaded, hooks, pendingHooks, unloadCalls, registry>>
    /\ UNCHANGED startupVars
    /\ UNCHANGED wiringVars
    /\ UNCHANGED serveVars

\* The workflow's plugin registry changes while the server runs.
RegistryChange ==
    /\ server = "up"
    /\ \E r \in Collections(MaxPlugins) :
          /\ r # registry
          /\ registry' = r
    /\ UNCHANGED <<pc, crashSite, loaded, hooks, pendingHooks, unloadCalls, media>>
    /\ UNCHANGED startupVars
    /\ UNCHANGED wiringVars
    /\ UNCHANGED serveVars

\* An exception that no try block of main() encloses ends main().
Crash(at, site) ==
    /\ pc = at
    /\ pc' = "crashed"
    /\ crashSite' = site
    /\ UNCHANGED <<loaded, hooks, pendingHooks, unloadCalls, registry, media>>
    /\ UNCHANGED startupVars
    /\ UNCHANGED wiringVars
    /\ UNCHANGED serveVars

\* Line 101: discover_manifests() raises.
DiscoverManifestsRaises ==
    Crash("discover", "discover_manifests")

\* Line 117: get_discovered_by_category("system_monitor") raises.
GetMonitorsRaises ==
    /\ idx > Len(transcription_plugins)
    /\ Crash("load", "get_discovered_by_category")

\* Line 147: create_and_setup raises.
CreateAndSetupRaises ==
    Crash("create", "create_and_setup")

\* Line 312: register_routes raises.
RegisterRoutesRaises ==
    Crash("routes", "register_routes")

\* ------------------------------------------------------ specifications
\* Collaborators return normally outside the try blocks; the discovered
\* plugins stay as they are until the demo is restarted.
Next ==
    \/ DiscoverManifests
    \/ LoadPlugin
    \/ GetMonitors
    \/ LoadMonitor
    \/ RegisterSystemMonitor
    \/ AtexitRegister
    \/ CreateAndSetup
    \/ DefineRoutes
    \/ CreateNavbar
    \/ RegisterRoutes
    \/ StartTimer
    \/ UvicornRun
    \/ ServerStartup
    \/ TimerFire
    \/ GetIndexStart
    \/ GetIndexFinish
    \/ GetWorkflow
    \/ MediaChange
    \/ Shutdown
    \/ CleanupPluginsCall
    \/ CleanupPluginsReturn
    \/ ProcessExit

Spec ==
    Init /\ [][Next]_vars

\* The same program in an environment whose collaborators may also raise
\* outside the try blocks and whose plugin registry may change between
\* requests.
NextEnv ==
    \/ Next
    \/ RegistryChange
    \/ DiscoverManifestsRaises
    \/ GetMonitorsRaises
    \/ CreateAndSetupRaises
    \/ RegisterRoutesRaises

SpecEnv ==
    Init /\ [][NextEnv]_vars

\* ------------------------------------------------------------- properties
IsTranscriptionLoad(c) ==
    c.meta.cat = "transcription"

IsMonitorLoad(c) ==
    c.meta.cat = "system_monitor"

IsStatusLine(l) ==
    l.kind = "status"

TranscriptionLoads ==
    SelectSeq(loadCalls, IsTranscriptionLoad)

MonitorLoads ==
    SelectSeq(loadCalls, IsMonitorLoad)

StatusLines ==
    SelectSeq(stdout, IsStatusLine)

\* main() ended inside the load loop of lines 108-114.
AbortedInLoop ==
    crashSite = "load_plugin" /\ MonitorLoads = <<>>

\* Number of iterations of the load loop that are over.
LoopDone ==
    IF pc = "discover" THEN 0
    ELSE IF pc = "load" \/ AbortedInLoop THEN idx - 1
    ELSE Len(transcription_plugins)

\* Every iteration that is over called load_plugin for its plugin and
\* printed that plugin's status line, in discovery order.
OneLoadAndOneLinePerPlugin ==
    /\ Len(TranscriptionLoads) >= LoopDone
    /\ Len(StatusLines) = LoopDone
    /\ \A k \in 1..LoopDone :
          /\ TranscriptionLoads[k].meta = Meta("transcription", transcription_plugins[k])
          /\ StatusLines[k].name = transcription_plugins[k]
          /\ StatusLines[k].status = LoadStatus(TranscriptionLoads[k].outcome)

\* C1 as stated: whatever load_plugin does (returns true, returns false,
\* raises), load_plugin is called exactly once per discovered transcription
\* plugin, in discovery order, one status line is printed per plugin, and no
\* load outcome ends main() in the loop.
C1_LoadFailureDoesNotAbortStartup ==
    /\ ~AbortedInLoop
    /\ Len(TranscriptionLoads) = LoopDone
    /\ OneLoadAndOneLinePerPlugin

\* C1 amended: a load_plugin call that returns false or raises an Exception
\* does not abort startup: such a call gets its status line and the loop
\* goes on to the next plugin.  main() ends in the loop only through a load
\* that raised a BaseException outside Exception, which is then the last
\* call made and has no status line.
C1_LoadExceptionDoesNotAbortStartup ==
    /\ OneLoadAndOneLinePerPlugin
    /\ \A k \in 1..LoopDone : TranscriptionLoads[k].outcome # "raise_base"
    /\ ~AbortedInLoop => Len(TranscriptionLoads) = LoopDone
    /\ AbortedInLoop =>
          /\ Len(TranscriptionLoads) = LoopDone + 1
          /\ Len(loadCalls) = LoopDone + 1
          /\ TranscriptionLoads[LoopDone + 1].outcome = "raise_base"
          /\ TranscriptionLoads[LoopDone + 1].meta =
                Meta("transcription", transcription_plugins[LoopDone + 1])

\* C1 witness: main() has returned after two loads, the first of which
\* raised an Exception and the second of which succeeded.
C1_Witness ==
    /\ pc = "returned"
    /\ Len(transcription_plugins) = 2
    /\ Len(TranscriptionLoads) = 2
    /\ TranscriptionLoads[1].outcome = "raise"
    /\ TranscriptionLoads[2].outcome = "true"
    /\ routes # {}

\* C2: whenever the process has exited, the exit hook has called unload_all
\* exactly once, whatever discovery, the loads, the monitor registration and
\* the workflow setup did.
C2_UnloadAllExactlyOnceAtExit ==
    pc = "exited" => unloadCalls = 1

\* C3: with at least one discovered transcription plugin, a rendered GET /
\* omits the "no plugins" alert and its plugin badge shows the discovered
\* count, whatever the load outcomes were.
C3_BadgeShowsDiscoveredCount ==
    (resp.route = "/" /\ Len(transcription_plugins) >= 1) =>
        /\ resp.status = 200
        /\ ~resp.content.noPluginsAlert
        /\ resp.content.pluginCount = Len(transcription_plugins)
        /\ resp.content.pluginBadge = "info"

\* C3 witness: GET / answered after two plugins were discovered and neither
\* was loaded, with media files present.
C3_Witness ==
    /\ resp.route = "/"
    /\ Len(transcription_plugins) = 2
    /\ \A k \in 1..Len(TranscriptionLoads) : TranscriptionLoads[k].outcome # "true"
    /\ resp.content.pluginCount = 2
    /\ resp.content.mediaCount = 1

\* C4: when discovery finds no plugin, startup never ends in an uncaught
\* exception; and with no transcription plugin discovered every rendered
\* GET / shows the "no plugins" alert and a plugin badge of 0 in the warning
\* colour.
C4_ZeroPluginsNoCrashAndAlert ==
    /\ (pc \notin {"discover", "load"} /\ Len(transcription_plugins) = 0 /\ monitors = <<>>) =>
          (pc # "crashed" /\ crashSite = "none")
    /\ (resp.route = "/" /\ Len(transcription_plugins) = 0) =>
          /\ resp.status = 200
          /\ resp.content.noPluginsAlert
          /\ resp.content.pluginCount = 0
          /\ resp.content.pluginBadge = "warning"

\* C4 witness: GET / answered by a server that started with nothing discovered.
C4_Witness ==
    /\ Len(transcription_plugins) = 0
    /\ monitors = <<>>
    /\ server = "up"
    /\ resp.route = "/"
    /\ resp.content.noPluginsAlert

\* What a GET /workflow response must hold apart from its layout: one
\* render_entry_point call, made with the request and its session, and that
\* call's output inside the container Div.
WorkflowDelegatesOnce ==
    /\ resp.status = 200
    /\ resp.calls = <<Call("render_entry_point", <<resp.req, resp.sess>>)>>
    /\ resp.content.kind = "container"
    /\ resp.content.child = [kind |-> "entry_point", req |-> resp.req, sess |-> resp.sess]

C6_BrowserOpensOnceAfterServerUp ==
    browserOpens <= 1 /\ ~openedBeforeUp

\* C6 amended: webbrowser.open is called at most once, and only once main()
\* has returned and the timer has been started.
C6_BrowserOpensOnceAfterTimerStart ==
    /\ browserOpens <= 1
    /\ browserOpens = 1 =>
          /\ timer = "fired"
          /\ pc \in {"timer_started", "serving", "shutdown", "unloading",
                    "exit_hooks", "exited"}
          /\ routes # {}

\* C6 witness: the browser was opened while uvicorn was still starting.
C6_Witness ==
    /\ browserOpens = 1
    /\ openedBeforeUp
    /\ server = "starting"

\* C7: register_system_monitor is called at most once and only for a monitor
\* whose load succeeded; a monitor whose load failed is logged and skipped.
C7_MonitorRegisteredOnlyIfLoaded ==
    /\ Len(registerCalls) <= 1
    /\ registerCalls # <<>> =>
          /\ Len(MonitorLoads) = 1
          /\ MonitorLoads[1].meta.name = registerCalls[1]
          /\ MonitorLoads[1].outcome = "true"

\* C8: every GET / reads the registry's plugins while it is handled, and
\* shows the plugin count and the media count of what get_all_plugins() and
\* scan() returned to that request, with the "no plugins" alert and the "no
\* media" note exactly when the respective result is empty.
C8_CountsArePerRequest ==
    [][/\ GetIndexStart => inflight'.all_plugins = registry
       /\ GetIndexFinish =>
             /\ resp'.content.pluginCount = Cardinality(inflight.all_plugins)
             /\ resp'.content.mediaCount = Cardinality(media)
             /\ resp'.content.noPluginsAlert = (inflight.all_plugins = {})
             /\ resp'.content.noMediaNote = (media = {})]_vars

\* C8 witness: a GET / whose plugin count differs from the startup count and
\* that shows one of the two notes without the other.
C8_Witness ==
    /\ resp.route = "/"
    /\ resp.content.pluginCount = Cardinality(registry)
    /\ resp.content.pluginCount # Cardinality(startupPlugins)
    /\ resp.content.noPluginsAlert # resp.content.noMediaNote

\* main() got as far as workflow creation.
ReachedCreate ==
    /\ pc \notin {"discover", "load", "monitor_load", "monitor_register", "atexit"}
    /\ crashSite \in {"none", "create_and_setup", "register_routes"}

\* C9: once main() reaches workflow creation the exit hook is registered,
\* whatever the loads did, so a process that exits from there on (also
\* through an exception of create_and_setup or register_routes) has called
\* unload_all and holds no loaded plugin.
C9_HookRegisteredBeforeWorkflowCreation ==
    ReachedCreate =>
        /\ hooks = <<"cleanup_plugins">>
        /\ pc = "exited" => (unloadCalls = 1 /\ loaded = {})

\* C9 witness: create_and_setup raised after one load failed and one
\* succeeded, and the process has exited.
C9_Witness ==
    /\ pc = "exited"
    /\ crashSite = "create_and_setup"
    /\ Len(TranscriptionLoads) = 2
    /\ TranscriptionLoads[1].outcome = "true"
    /\ TranscriptionLoads[2].outcome = "raise"
    /\ unloadCalls = 1

\* C10: while the server is running, and whenever a page handler has
\* answered, navbar is bound, the workflow is stored on app.state and the
\* handlers and the workflow's routers are registered; no handler fails on
\* an unbound navbar.
C10_NoRequestBeforeWiring ==
    (server \in {"starting", "up"} \/ inflight.active \/ resp.route # "none") =>
        /\ navbar
        /\ appState
        /\ handlers \subseteq routes
        /\ WorkflowRouters \subseteq routes
        /\ resp.status # 500

\* C10 witness: a full-page GET /workflow, whose layout reads navbar.
C10_Witness ==
    /\ resp.route = "/workflow"
    /\ ~resp.req.htmx
    /\ resp.layout
    /\ resp.status = 200

====
